---------------------------- MODULE Spec2Model ----------------------------
(***************************************************************************)
(* Model of src/maintenenceapp.py: the field-extraction pipeline          *)
(* (extract_task_type, extract_asset, extract_priority, extract_date,     *)
(* extract_location, parse_form).                                          *)
(*                                                                         *)
(* A text is a sequence of tokens [w, p]: w is a maximal run of word       *)
(* characters, p the punctuation glued to its end ("" when the token is    *)
(* followed directly by the single blank that separates it from the next  *)
(* token).  A regular expression \bkw\b of the source is evaluated on the  *)
(* tokens: every word of kw but the last must be a token with p = "" (a    *)
(* blank follows), the last word may carry punctuation (\b holds there).   *)
(***************************************************************************)
EXTENDS Integers, Sequences, FiniteSets, TLC

VARIABLES
  text,     \* the input line handed to parse_form
  now,      \* the calendar day datetime.now() reports
  ticks,    \* the midnights that have passed since the start
  ner,      \* the DATE entities the NER service finds in the text
  search,   \* the matches the fuzzy date search finds in the text
  tagger,   \* the words the tokenizer tags NOUN
  last,     \* the latest call of parse_form: its record, its date run, its day
  prev      \* the call before it

vars == <<text, now, ticks, ner, search, tagger, last, prev>>

-----------------------------------------------------------------------------
(* Tokens *)

W(s) == [w |-> s, p |-> ""]

T(s, q) == [w |-> s, p |-> q]

\* str.lower() on the words of the vocabulary that carry capitals
Lower(s) ==
  CASE s = "A" -> "a"
    [] s = "Building" -> "building"
    [] s = "Main" -> "main"
    [] s = "Street" -> "street"
    [] OTHER -> s

LowerText(txt) == [i \in 1..Len(txt) |-> [w |-> Lower(txt[i].w), p |-> txt[i].p]]

\* pairs <<s, w>>: s is a proper prefix of the vocabulary word w
ProperPrefixes ==
  { <<"sign", "signs">>, <<"exit", "exits">>, <<"light", "lights">>,
    <<"pipe", "pipes">>, <<"urgent", "urgently">> }

StartsWith(w, s) == w = s \/ <<s, w>> \in ProperPrefixes

\* no word of the vocabulary is a proper suffix of another
EndsWith(w, s) == w = s

\* re.search(rf'\b{kw}\b') anchored at token i; kw is a sequence of words
MatchAt(txt, i, kw) ==
  /\ i >= 1
  /\ i + Len(kw) - 1 <= Len(txt)
  /\ \A k \in 1..Len(kw) :
        /\ txt[i + k - 1].w = kw[k]
        /\ (k < Len(kw) => txt[i + k - 1].p = "")

Matches(txt, kw) == \E i \in 1..Len(txt) : MatchAt(txt, i, kw)

\* `phrase in txt`: a substring test, the phrase may end inside a word
SubstringAt(txt, i, ph) ==
  /\ i + Len(ph) - 1 <= Len(txt)
  /\ EndsWith(txt[i].w, ph[1])
  /\ StartsWith(txt[i + Len(ph) - 1].w, ph[Len(ph)])
  /\ \A k \in 1..Len(ph) :
        /\ (k > 1 /\ k < Len(ph)) => txt[i + k - 1].w = ph[k]
        /\ (k < Len(ph) => txt[i + k - 1].p = "")

Contains(txt, ph) == \E i \in 1..Len(txt) : SubstringAt(txt, i, ph)

Min(S) == CHOOSE x \in S : \A y \in S : x <= y

Max(S) == CHOOSE x \in S : \A y \in S : x >= y

-----------------------------------------------------------------------------
(* Keyword tables *)

CategoryOrder == <<"electrical", "plumbing", "hvac", "carpentry", "general">>

TASK_CATEGORIES ==
  [ electrical |-> << <<"emergency", "exit", "sign">>, <<"exit", "sign">>,
                      <<"electrical">>, <<"light">>, <<"lights">>, <<"bulb">>,
                      <<"bulbs">>, <<"fixture">>, <<"fixtures">>, <<"outlet">>,
                      <<"socket">>, <<"switch">>, <<"wire">>, <<"wiring">>,
                      <<"cable">>, <<"sign">> >>,
    plumbing   |-> << <<"leak">>, <<"pipe">>, <<"pipes">>, <<"toilet">>,
                      <<"sink">>, <<"sinks">>, <<"faucet">> >>,
    hvac       |-> << <<"ac">>, <<"air", "conditioner">>, <<"vent">>,
                      <<"vents">>, <<"cooling">>, <<"heater">>, <<"duct">>,
                      <<"ductwork">> >>,
    carpentry  |-> << <<"door">>, <<"window">>, <<"handle">>, <<"frame">>,
                      <<"handrail">>, <<"ladder">>, <<"drywall">> >>,
    general    |-> << <<"broken">>, <<"fix">>, <<"repair">>, <<"generator">> >> ]

GENERIC_ASSETS ==
  { <<"broken">>, <<"fix">>, <<"repair">>, <<"leak">>, <<"fluorescent">>,
    <<"thing">>, <<"unit">>, <<"component">>, <<"device">>, <<"fixture">>,
    <<"system">>, <<"apparatus">>, <<"equipment">>, <<"object">>, <<"item">>,
    <<"hardware">>, <<"part">> }

PriorityOrder == <<"high", "medium", "low">>

PRIORITY_KEYWORDS ==
  [ high   |-> << <<"high", "priority">>, <<"urgent">>, <<"asap">>,
                  <<"immediately">>, <<"emergency">>, <<"critical">>,
                  <<"immediate", "attention">> >>,
    medium |-> << <<"medium", "priority">>, <<"normal", "priority">>,
                  <<"soon">>, <<"quick">>, <<"needs", "attention">> >>,
    low    |-> << <<"low", "priority">>, <<"whenever">>, <<"no", "rush">>,
                  <<"sometime">>, <<"can", "wait">>, <<"minor">>,
                  <<"not", "a", "big", "deal">> >> ]

\* str.capitalize() of the table's keys
Capitalize(s) ==
  CASE s = "electrical" -> "Electrical"
    [] s = "plumbing" -> "Plumbing"
    [] s = "hvac" -> "Hvac"
    [] s = "carpentry" -> "Carpentry"
    [] s = "general" -> "General"
    [] s = "high" -> "High"
    [] s = "medium" -> "Medium"
    [] s = "low" -> "Low"

\* task_type.lower() of a value extract_task_type returns
LowerKey(s) ==
  CASE s = "Electrical" -> "electrical"
    [] s = "Plumbing" -> "plumbing"
    [] s = "Hvac" -> "hvac"
    [] s = "Carpentry" -> "carpentry"
    [] s = "General" -> "general"

SeqToSet(s) == { s[i] : i \in 1..Len(s) }

AnyKeyword(txt, kws) == \E k \in 1..Len(kws) : Matches(txt, kws[k])

-----------------------------------------------------------------------------
(* extract_task_type *)

\* FirstCategory with the table scanned HVAC first, whatever order it is given
FirstCategory_HvacFirst(txt, order) ==
  LET scan == <<"hvac", "electrical", "plumbing", "carpentry", "general">>
      hit  == { c \in 1..Len(scan) : AnyKeyword(txt, TASK_CATEGORIES[scan[c]]) }
  IN  IF hit = {} THEN "General" ELSE Capitalize(scan[Min(hit)])

\* the nested loops: the first category, in the order given, with a keyword
FirstCategory(txt, order) ==
  LET hit == { c \in 1..Len(order) : AnyKeyword(txt, TASK_CATEGORIES[order[c]]) }
  IN  IF hit = {} THEN "General" ELSE Capitalize(order[Min(hit)])

extract_task_type(txt0) == FirstCategory(LowerText(txt0), CategoryOrder)

-----------------------------------------------------------------------------
(* extract_asset *)

NoAsset == <<>>

\* the tokenizer/NER service's part-of-speech tags: the tokens tagged NOUN
nlp_nouns(txt0) == SelectSeq(txt0, LAMBDA t : t.w \in tagger)

\* re.search(r'\b(k1|..)\s+(k1|..)\b'): leftmost start, then the first
\* alternative of each group that lets the whole pattern match
CompoundAt(txt, i, kws) ==
  LET firsts == { a \in 1..Len(kws) :
                    MatchAt(txt, i, kws[a]) /\ txt[i + Len(kws[a]) - 1].p = "" }
  IN  UNION { { <<a, b>> : b \in { k \in 1..Len(kws) :
                                     MatchAt(txt, i + Len(kws[a]), kws[k]) } } :
              a \in firsts }

\* Compound with the compound search left out
Compound_Skipped(txt, kws) == NoAsset

Compound(txt, kws) ==
  LET starts == { i \in 1..Len(txt) : CompoundAt(txt, i, kws) # {} }
  IN  IF starts = {} THEN NoAsset
      ELSE LET at == CompoundAt(txt, Min(starts), kws)
               a  == Min({ ab[1] : ab \in at })
               b  == Min({ ab[2] : ab \in { x \in at : x[1] = a } })
           IN  kws[a] \o kws[b]

\* [(m.start(), kw) for kw in kws for m in re.finditer(...)] as <<start, index>>
Hits(txt, kws) ==
  { <<i, k>> \in (1..Len(txt)) \X (1..Len(kws)) : MatchAt(txt, i, kws[k]) }

\* Arbitrate with the generic hits kept
Arbitrate_KeepGeneric(hits, kws) == hits

\* if len(hits) > 1: drop the generic ones unless nothing would remain
Arbitrate(hits, kws) ==
  LET spec == { h \in hits : kws[h[2]] \notin GENERIC_ASSETS }
  IN  IF Cardinality(hits) > 1 /\ spec # {} THEN spec ELSE hits

\* min(hits, key=start): the earliest start, the first in list order on a tie
Earliest(hits, kws) ==
  LET i == Min({ h[1] : h \in hits })
      k == Min({ h[2] : h \in { x \in hits : x[1] = i } })
  IN  kws[k]

AllKeywords ==
  TASK_CATEGORIES.electrical \o TASK_CATEGORIES.plumbing \o TASK_CATEGORIES.hvac
    \o TASK_CATEGORIES.carpentry \o TASK_CATEGORIES.general

NounFallback(txt0) ==
  LET nouns == nlp_nouns(txt0)
      good  == SelectSeq(nouns, LAMBDA t : <<Lower(t.w)>> \notin GENERIC_ASSETS)
  IN  IF good # <<>> THEN <<good[1].w>>
      ELSE IF nouns # <<>> THEN <<nouns[1].w>>
      ELSE NoAsset

KeywordAsset(txt, kws, txt0) ==
  LET comp     == Compound(txt, kws)
      hits     == Hits(txt, kws)
      all_hits == Hits(txt, AllKeywords)
  IN  IF comp # NoAsset THEN comp
      ELSE IF hits # {} THEN Earliest(Arbitrate(hits, kws), kws)
      ELSE IF all_hits # {} THEN Earliest(Arbitrate(all_hits, AllKeywords), AllKeywords)
      ELSE NounFallback(txt0)

extract_asset(txt0, task_type) ==
  LET txt == LowerText(txt0)
      kws == TASK_CATEGORIES[LowerKey(task_type)]
  IN  IF Contains(txt, <<"emergency", "exit", "sign">>)
        THEN <<"emergency", "exit", "sign">>
      ELSE IF Contains(txt, <<"exit", "sign">>) THEN <<"exit", "sign">>
      ELSE KeywordAsset(txt, kws, txt0)

-----------------------------------------------------------------------------
(* extract_priority *)

\* re.search(r'\bemergency\b(?!\s+exit)')
EmergencyNotExit(txt) ==
  \E i \in 1..Len(txt) :
     /\ txt[i].w = "emergency"
     /\ ~ ( /\ txt[i].p = ""
            /\ i < Len(txt)
            /\ StartsWith(txt[i + 1].w, "exit") )

\* re.search(r'\b(minor|not a big deal)\b')
Downplay(txt) ==
  Matches(txt, <<"minor">>) \/ Matches(txt, <<"not", "a", "big", "deal">>)

\* re.search(r'\bnot\s+(?:urgent|high priority|critical)\b')
NegatedUrgency(txt) ==
  \/ Matches(txt, <<"not", "urgent">>)
  \/ Matches(txt, <<"not", "high", "priority">>)
  \/ Matches(txt, <<"not", "critical">>)

\* for lvl, kws in PRIORITY_KEYWORDS.items(): the first level with a keyword
FirstLevel(txt, order) ==
  LET hit == { l \in 1..Len(order) : AnyKeyword(txt, PRIORITY_KEYWORDS[order[l]]) }
  IN  IF hit = {} THEN "Medium" ELSE Capitalize(order[Min(hit)])

PriorityOf(txt) ==
  IF EmergencyNotExit(txt) THEN "High"
  ELSE IF Downplay(txt) THEN "Low"
  ELSE IF NegatedUrgency(txt) THEN "Low"
  ELSE FirstLevel(txt, PriorityOrder)

extract_priority(txt0) == PriorityOf(LowerText(txt0))

-----------------------------------------------------------------------------
(* Calendar arithmetic: datetime.date, datetime.timedelta, calendar.monthrange *)

Date(y, m, d) == [y |-> y, m |-> m, d |-> d]

NoDate == [y |-> 0, m |-> 0, d |-> 0]

IsLeap(y) == (y % 4 = 0) /\ ((y % 100 # 0) \/ (y % 400 = 0))

\* calendar.monthrange(y, m)[1]
DaysInMonth(y, m) ==
  IF m = 2 THEN (IF IsLeap(y) THEN 29 ELSE 28)
  ELSE IF m \in {4, 6, 9, 11} THEN 30 ELSE 31

RECURSIVE DaysBeforeMonth(_, _)
DaysBeforeMonth(y, m) ==
  IF m = 1 THEN 0 ELSE DaysBeforeMonth(y, m - 1) + DaysInMonth(y, m - 1)

\* date.toordinal()
Ordinal(dt) ==
  LET y1 == dt.y - 1
  IN  y1 * 365 + (y1 \div 4) - (y1 \div 100) + (y1 \div 400)
        + DaysBeforeMonth(dt.y, dt.m) + dt.d

\* date.weekday(): Monday is 0
Weekday(dt) == (Ordinal(dt) + 6) % 7

NextDay(dt) ==
  IF dt.d < DaysInMonth(dt.y, dt.m) THEN Date(dt.y, dt.m, dt.d + 1)
  ELSE IF dt.m < 12 THEN Date(dt.y, dt.m + 1, 1)
  ELSE Date(dt.y + 1, 1, 1)

PrevDay(dt) ==
  IF dt.d > 1 THEN Date(dt.y, dt.m, dt.d - 1)
  ELSE IF dt.m > 1 THEN Date(dt.y, dt.m - 1, DaysInMonth(dt.y, dt.m - 1))
  ELSE Date(dt.y - 1, 12, 31)

\* date + timedelta(days=n)
RECURSIVE AddDays(_, _)
AddDays(dt, n) ==
  IF n = 0 THEN dt
  ELSE IF n > 0 THEN AddDays(NextDay(dt), n - 1)
  ELSE AddDays(PrevDay(dt), n + 1)

nth_weekday(year, month, weekday, n) ==
  LET first  == Date(year, month, 1)
      offset == (weekday - Weekday(first) + 7) % 7
  IN  AddDays(first, offset + 7 * (n - 1))

last_weekday(year, month, weekday) ==
  LET d == Date(year, month, DaysInMonth(year, month))
  IN  AddDays(d, 0 - ((Weekday(d) - weekday) % 7))

-----------------------------------------------------------------------------
(* get_holiday_date *)

Words(ws) == [i \in 1..Len(ws) |-> W(ws[i])]

\* name.lower().replace("’","'").replace(".", "").strip(), token by token
NormToken(t) ==
  [w |-> Lower(t.w),
   p |-> CASE t.p = "curly_apos_s" -> "apos_s"
           [] t.p = "dot" -> ""
           [] OTHER -> t.p]

\* re.sub(r"'s$", "", nm): only a 's that ends the whole name is dropped
StripFinalPossessive(nm) ==
  IF nm # <<>> /\ nm[Len(nm)].p = "apos_s"
    THEN [nm EXCEPT ![Len(nm)].p = ""]
    ELSE nm

NormalizeName(name) ==
  StripFinalPossessive([i \in 1..Len(name) |-> NormToken(name[i])])

get_holiday_date(name, year) ==
  LET nm == NormalizeName(name)
  IN  IF nm = Words(<<"thanksgiving">>) THEN nth_weekday(year, 11, 3, 4)
      ELSE IF nm = Words(<<"christmas">>) THEN Date(year, 12, 25)
      ELSE IF nm \in {Words(<<"new", "year", "day">>), Words(<<"new", "year">>)}
        THEN Date(year, 1, 1)
      ELSE IF nm \in {Words(<<"valentine", "day">>), Words(<<"valentines", "day">>)}
        THEN Date(year, 2, 14)
      ELSE IF nm = Words(<<"labor", "day">>) THEN nth_weekday(year, 9, 0, 1)
      ELSE IF nm = Words(<<"memorial", "day">>) THEN last_weekday(year, 5, 0)
      ELSE IF nm \in {Words(<<"president", "day">>), Words(<<"presidents", "day">>)}
        THEN nth_weekday(year, 2, 0, 3)
      ELSE IF nm = Words(<<"martin", "luther", "king", "jr", "day">>)
        THEN nth_weekday(year, 1, 0, 3)
      ELSE IF nm = Words(<<"columbus", "day">>) THEN nth_weekday(year, 10, 0, 2)
      ELSE IF nm = Words(<<"veterans", "day">>) THEN Date(year, 11, 11)
      ELSE NoDate

-----------------------------------------------------------------------------
(* extract_date *)

MonthNumber(w) ==
  CASE w = "january" -> 1 [] w = "february" -> 2 [] w = "march" -> 3
    [] w = "april" -> 4 [] w = "may" -> 5 [] w = "june" -> 6
    [] w = "july" -> 7 [] w = "august" -> 8 [] w = "september" -> 9
    [] w = "october" -> 10 [] w = "november" -> 11 [] w = "december" -> 12
    [] OTHER -> 0

\* Monday is 0, as date.weekday(); -1: not a weekday name
WeekdayNumber(w) ==
  CASE w = "monday" -> 0 [] w = "tuesday" -> 1 [] w = "wednesday" -> 2
    [] w = "thursday" -> 3 [] w = "friday" -> 4 [] w = "saturday" -> 5
    [] w = "sunday" -> 6 [] OTHER -> 0 - 1

WeekdayAbbreviations == {"mon", "tue", "wed", "thu", "fri", "sat", "sun"}

\* the value of a token \d+(?:st|nd|rd|th) of the vocabulary, 0 for any other
OrdinalValue(w) ==
  CASE w = "3rd" -> 3 [] w = "15th" -> 15 [] w = "31st" -> 31
    [] w = "100th" -> 100 [] OTHER -> 0

\* the value of a token \d+ of the vocabulary, 0 for any other
NumberValue(w) ==
  CASE w = "4" -> 4 [] w = "12" -> 12 [] w = "204" -> 204 [] OTHER -> 0

\* re.search(r'\bend of (?:this|current) month\b')
EndOfMonth(txt) ==
  \/ Matches(txt, <<"end", "of", "this", "month">>)
  \/ Matches(txt, <<"end", "of", "current", "month">>)

\* the alternatives of the holiday pattern, in the order the pattern lists them
HolidayPatterns ==
  << Words(<<"thanksgiving">>),
     Words(<<"christmas">>),
     <<W("new"), T("year", "apos_s"), W("day")>>,
     Words(<<"new", "year", "day">>),
     Words(<<"new", "year">>),
     <<T("valentine", "curly_apos_s"), W("day")>>,
     Words(<<"valentines", "day">>),
     Words(<<"labor", "day">>),
     Words(<<"memorial", "day">>),
     Words(<<"presidents", "day">>),
     Words(<<"president", "day">>),
     <<W("martin"), W("luther"), W("king"), T("jr", "dot"), W("day")>>,
     Words(<<"martin", "luther", "king", "jr", "day">>),
     Words(<<"columbus", "day">>),
     Words(<<"veterans", "day">>) >>

\* one alternative anchored at token i: inner tokens as written, \b after the last
PatternAt(txt, i, pat) ==
  /\ i >= 1
  /\ i + Len(pat) - 1 <= Len(txt)
  /\ \A k \in 1..Len(pat) :
        /\ txt[i + k - 1].w = pat[k].w
        /\ (k < Len(pat) => txt[i + k - 1].p = pat[k].p)

HolidayAt(txt, i) == { h \in 1..Len(HolidayPatterns) : PatternAt(txt, i, HolidayPatterns[h]) }

QualifiedAt(txt, i) ==
  /\ i < Len(txt)
  /\ txt[i] = W("next")
  /\ HolidayAt(txt, i + 1) # {}

\* hol = re.search(...): the leftmost match as [qual, name], or NoMatch
NoMatch == [qual |-> FALSE, name |-> <<>>]

HolidayMatch(txt) ==
  LET starts == { i \in 1..Len(txt) : QualifiedAt(txt, i) \/ HolidayAt(txt, i) # {} }
  IN  IF starts = {} THEN NoMatch
      ELSE LET i == Min(starts)
               q == QualifiedAt(txt, i)
               j == IF q THEN i + 1 ELSE i
           IN  [qual |-> q, name |-> HolidayPatterns[Min(HolidayAt(txt, j))]]

Before(a, b) == Ordinal(a) < Ordinal(b)

\* lines 186-193: the date the holiday strategy returns, NoDate when it defers
HolidayDate(txt, clock) ==
  LET hol == HolidayMatch(txt)
  IN  IF hol = NoMatch THEN NoDate
      ELSE LET yr == clock.y + (IF hol.qual THEN 1 ELSE 0)
               hd == get_holiday_date(hol.name, yr)
           IN  IF ~hol.qual /\ hd # NoDate /\ Before(hd, clock)
                 THEN get_holiday_date(hol.name, clock.y + 1)
                 ELSE hd

\* the guard's pattern: a weekday (full or short), a month, next, last,
\* tomorrow, yesterday or an ordinal number, as a whole word
DateHintWord(w) ==
  \/ WeekdayNumber(w) >= 0
  \/ w \in WeekdayAbbreviations
  \/ MonthNumber(w) > 0
  \/ w \in {"next", "last", "tomorrow", "yesterday"}
  \/ OrdinalValue(w) > 0

DateHint(txt) == \E i \in 1..Len(txt) : DateHintWord(txt[i].w)

\* (\d{1,2})(?:st|nd|rd|th)(?:\s+of)?\s+(month)\b anchored at token i:
\* the number of tokens matched, 0 when it does not match there
ExplicitAt(txt, i) ==
  IF ~(OrdinalValue(txt[i].w) \in 1..99 /\ txt[i].p = "") THEN 0
  ELSE IF i + 1 <= Len(txt) /\ MonthNumber(txt[i + 1].w) > 0 THEN 2
  ELSE IF /\ i + 2 <= Len(txt)
          /\ txt[i + 1] = W("of")
          /\ MonthNumber(txt[i + 2].w) > 0 THEN 3
  ELSE 0

\* exp.group(0): the tokens of the leftmost match, <<>> when there is none
ExplicitPhrase(txt) ==
  LET starts == { i \in 1..Len(txt) : ExplicitAt(txt, i) > 0 }
  IN  IF starts = {} THEN <<>>
      ELSE LET i == Min(starts)
               n == ExplicitAt(txt, i)
           IN  [k \in 1..n |-> [w |-> txt[i + k - 1].w,
                                p |-> IF k = n THEN "" ELSE txt[i + k - 1].p]]

\* dateparser.parse of a "<day>th [of] <month>" phrase relative to the clock:
\* that day of the current year, None when the month has no such day
ParseDayMonth(phrase, clock) ==
  LET day == OrdinalValue(phrase[1].w)
      mon == MonthNumber(phrase[Len(phrase)].w)
  IN  IF day <= DaysInMonth(clock.y, mon) THEN Date(clock.y, mon, day) ELSE NoDate

\* dateparser.parse of a weekday name with PREFER_DATES_FROM future: the next
\* day with that name, a week ahead when the clock's day bears it
ParseWeekday(w, clock) ==
  LET steps == (WeekdayNumber(w) - Weekday(clock) + 7) % 7
  IN  AddDays(clock, IF steps = 0 THEN 7 ELSE steps)

\* re.search(r'\bby\s+(weekday)\b'): the weekday of the leftmost match, "" if none
ByWeekday(txt) ==
  LET starts == { i \in 1..(Len(txt) - 1) :
                    txt[i] = W("by") /\ WeekdayNumber(txt[i + 1].w) >= 0 }
  IN  IF starts = {} THEN "" ELSE txt[Min(starts) + 1].w

\* re.search(r'\bafter\s+next\s+(weekday)\b')
AfterNextWeekday(txt) ==
  LET starts == { i \in 1..(Len(txt) - 2) :
                    /\ txt[i] = W("after") /\ txt[i + 1] = W("next")
                    /\ WeekdayNumber(txt[i + 2].w) >= 0 }
  IN  IF starts = {} THEN "" ELSE txt[Min(starts) + 2].w

\* re.search(r'\bbefore\s+(next|last)\s+(weekday)\b') as [qual, wd]
BeforeWeekday(txt) ==
  LET starts == { i \in 1..(Len(txt) - 2) :
                    /\ txt[i] = W("before")
                    /\ txt[i + 1] \in {W("next"), W("last")}
                    /\ WeekdayNumber(txt[i + 2].w) >= 0 }
  IN  IF starts = {} THEN [qual |-> "", wd |-> ""]
      ELSE [qual |-> txt[Min(starts) + 1].w, wd |-> txt[Min(starts) + 2].w]

\* What one call of extract_date did: the date it returned (NoDate for None),
\* the strategy that returned, the services it invoked in order, and the
\* phrase the day+month strategy handed to the date parser (<<>> if none)
Outcome(date, by, calls, phrase) ==
  [date |-> date, by |-> by, calls |-> calls, phrase |-> phrase]

\* for ent in doc.ents: the first DATE entity without "other day" that parses
RECURSIVE EntityDate(_, _)
EntityDate(ents, clock) ==
  IF ents = <<>> THEN NoDate
  ELSE IF ~ents[1].other /\ ents[1].days >= 0 THEN AddDays(clock, ents[1].days)
  ELSE EntityDate(Tail(ents), clock)

\* one dateparser.parse call for each DATE entity reached that has no "other day"
RECURSIVE EntityCalls(_)
EntityCalls(ents) ==
  IF ents = <<>> THEN <<>>
  ELSE IF ents[1].other THEN EntityCalls(Tail(ents))
  ELSE IF ents[1].days >= 0 THEN <<"dateparser">>
  ELSE <<"dateparser">> \o EntityCalls(Tail(ents))

\* for m, dt in results: the first match without "other day"
RECURSIVE SearchDate(_, _)
SearchDate(results, clock) ==
  IF results = <<>> THEN NoDate
  ELSE IF ~results[1].other THEN AddDays(clock, results[1].days)
  ELSE SearchDate(Tail(results), clock)

\* lines 236-251: the NER entities, then the fuzzy search of the whole text
Fallbacks(clock, calls, phrase) ==
  LET c1 == calls \o <<"nlp">> \o EntityCalls(ner)
      e  == EntityDate(ner, clock)
      c2 == c1 \o <<"search_dates">>
      f  == SearchDate(search, clock)
  IN  IF e # NoDate THEN Outcome(e, "entity", c1, phrase)
      ELSE IF f # NoDate THEN Outcome(f, "search", c2, phrase)
      ELSE Outcome(NoDate, "none", c2, phrase)

\* lines 213-234: the three weekday strategies
WeekdayStrategies(txt, clock, calls, phrase) ==
  LET c == calls \o <<"dateparser">>
      bf == BeforeWeekday(txt)
      by == ByWeekday(txt)
      aft == AfterNextWeekday(txt)
  IN  IF by # ""
        THEN Outcome(ParseWeekday(by, clock), "by_weekday", c, phrase)
      ELSE IF aft # ""
        THEN Outcome(AddDays(ParseWeekday(aft, clock), 7),
                     "after_next", c, phrase)
      ELSE IF bf.wd # ""
        THEN Outcome(AddDays(ParseWeekday(bf.wd, clock),
                             IF bf.qual = "next" THEN 7 ELSE 0 - 7),
                     "before", c, phrase)
      ELSE Fallbacks(clock, calls, phrase)

\* ExplicitStrategy with the day+month pattern never tried
ExplicitStrategy_Skipped(txt, clock) == WeekdayStrategies(txt, clock, <<>>, <<>>)

\* lines 205-211: the explicit day+month strategy
ExplicitStrategy(txt, clock) ==
  LET phrase == ExplicitPhrase(txt)
      p      == IF phrase = <<>> THEN NoDate ELSE ParseDayMonth(phrase, clock)
      calls  == IF phrase = <<>> THEN <<>> ELSE <<"dateparser">>
  IN  IF p # NoDate THEN Outcome(p, "explicit", calls, phrase)
      ELSE WeekdayStrategies(txt, clock, calls, phrase)

\* Guard with the early return left out
Guard_Skipped(txt, clock) == ExplicitStrategy(txt, clock)

\* lines 195-203: the guard
Guard(txt, clock) ==
  IF ~DateHint(txt) THEN Outcome(NoDate, "guard", <<>>, <<>>)
  ELSE ExplicitStrategy(txt, clock)

extract_date(txt0, clock) ==
  LET txt == LowerText(txt0)
  IN  IF EndOfMonth(txt)
        THEN Outcome(Date(clock.y, clock.m, DaysInMonth(clock.y, clock.m)),
                     "end_of_month", <<>>, <<>>)
      ELSE LET hd == HolidayDate(txt, clock)
           IN  IF hd # NoDate THEN Outcome(hd, "holiday", <<>>, <<>>)
               ELSE Guard(txt, clock)

-----------------------------------------------------------------------------
(* extract_location *)

\* [A-Z] under re.IGNORECASE: a one-letter word
SingleLetter(w) == w \in {"A", "a"}

\* [A-Z] without re.IGNORECASE: the word starts with a capital
Capitalized(w) == w \in {"A", "Building", "Main", "Street"}

StreetWords == {"Street", "St", "Avenue", "Ave", "Road", "Rd"}

Cardinals == {"north", "south", "east", "west"}

IsNumber(w) == NumberValue(w) > 0

\* the tokens i..j of a match, the punctuation after the last one left out
Slice(txt, i, j) ==
  [k \in 1..(j - i + 1) |-> [w |-> txt[i + k - 1].w,
                             p |-> IF k = j - i + 1 THEN "" ELSE txt[i + k - 1].p]]

\* the leftmost start of a pattern, 0 if it matches nowhere
FirstStart(starts) == IF starts = {} THEN 0 ELSE Min(starts)

Pairs(txt) == 1..(Len(txt) - 1)

IsBuilding(t) ==
  \/ Lower(t.w) \in {"building", "bldg"} /\ t.p = ""
  \/ Lower(t.w) = "bldg" /\ t.p = "dot"

\* r'\b(?:building|bldg\.?)\s*[A-Z]\b' with re.IGNORECASE
BuildingPart(txt) ==
  LET i == FirstStart({ k \in Pairs(txt) :
                          IsBuilding(txt[k]) /\ SingleLetter(txt[k + 1].w) })
  IN  IF i = 0 THEN <<>> ELSE << Slice(txt, i, i + 1) >>

\* r'\b(?:suite|ste)\s*(\d+)\b'
SuitePart(txt) ==
  LET i == FirstStart({ k \in Pairs(txt) :
                          /\ Lower(txt[k].w) \in {"suite", "ste"}
                          /\ txt[k].p = ""
                          /\ IsNumber(txt[k + 1].w) })
  IN  IF i = 0 THEN <<>> ELSE << <<W("suite"), W(txt[i + 1].w)>> >>

\* r'\b(room\s*\d+|\d{3})\b'
RoomPart(txt) ==
  LET rooms  == { i \in Pairs(txt) :
                    Lower(txt[i].w) = "room" /\ txt[i].p = "" /\ IsNumber(txt[i + 1].w) }
      bare   == { i \in 1..Len(txt) : NumberValue(txt[i].w) \in 100..999 }
      starts == rooms \cup bare
  IN  IF starts = {} THEN <<>>
      ELSE LET i == Min(starts)
           IN  << Slice(txt, i, IF i \in rooms THEN i + 1 ELSE i) >>

\* r'\b\d+(?:st|nd|rd|th)?\s+floor\b'
FloorPart(txt) ==
  LET i == FirstStart({ k \in Pairs(txt) :
                          /\ IsNumber(txt[k].w) \/ OrdinalValue(txt[k].w) > 0
                          /\ txt[k].p = ""
                          /\ Lower(txt[k + 1].w) = "floor" })
  IN  IF i = 0 THEN <<>> ELSE << Slice(txt, i, i + 1) >>

\* r'\bstairs?\s*(\d+)\b'
StairPart(lower) ==
  LET i == FirstStart({ k \in Pairs(lower) :
                          /\ lower[k].w \in {"stair", "stairs"}
                          /\ lower[k].p = ""
                          /\ IsNumber(lower[k + 1].w) })
  IN  IF i = 0 THEN <<>> ELSE << <<W("Stair"), W(lower[i + 1].w)>> >>

\* r'\bon\s+([A-Z][\w\s]*?(?:Street|St\.?|Avenue|Ave\.?|Road|Rd\.?))\b':
\* <<i, j>> with "on" at i and the first street word at j
StreetSpans(txt) ==
  { ij \in (1..Len(txt)) \X (1..Len(txt)) :
      /\ ij[1] + 1 < ij[2]
      /\ txt[ij[1]] = W("on")
      /\ Capitalized(txt[ij[1] + 1].w)
      /\ txt[ij[2]].w \in StreetWords
      /\ \A k \in (ij[1] + 1)..(ij[2] - 1) :
            txt[k].p = "" /\ (k > ij[1] + 1 => txt[k].w \notin StreetWords) }

StreetPart(txt) ==
  IF StreetSpans(txt) = {} THEN <<>>
  ELSE LET i == Min({ ij[1] : ij \in StreetSpans(txt) })
           j == Min({ ij[2] : ij \in { x \in StreetSpans(txt) : x[1] = i } })
       IN  << Slice(txt, i + 1, j) >>

\* r'\bnear\s+the\s+([\w\s]+?elevator)\b'
ElevatorSpans(lower) ==
  { ij \in (1..Len(lower)) \X (1..Len(lower)) :
      /\ ij[1] + 2 < ij[2]
      /\ lower[ij[1]] = W("near")
      /\ lower[ij[1] + 1] = W("the")
      /\ lower[ij[2]].w = "elevator"
      /\ \A k \in (ij[1] + 2)..(ij[2] - 1) : lower[k].p = "" }

ElevatorPart(lower) ==
  IF ElevatorSpans(lower) = {} THEN <<>>
  ELSE LET i == Min({ ij[1] : ij \in ElevatorSpans(lower) })
           j == Min({ ij[2] : ij \in { x \in ElevatorSpans(lower) : x[1] = i } })
       IN  << Slice(lower, i + 2, j) >>

\* r'\bcorridor\s*(\d+)\b'
CorridorPart(lower) ==
  LET i == FirstStart({ k \in Pairs(lower) :
                          lower[k] = W("corridor") /\ IsNumber(lower[k + 1].w) })
  IN  IF i = 0 THEN <<>> ELSE << <<W("corridor"), W(lower[i + 1].w)>> >>

\* r'\b(north|south|east|west)\s+wing\b' and the same for wall
CardinalPart(lower, what) ==
  LET i == FirstStart({ k \in Pairs(lower) :
                          /\ lower[k].w \in Cardinals
                          /\ lower[k].p = ""
                          /\ lower[k + 1].w = what })
  IN  IF i = 0 THEN <<>> ELSE << <<W(lower[i].w), W(what)>> >>

\* the fragments in the order the parts are appended; <<>> stands for None
extract_location(txt0) ==
  LET lower == LowerText(txt0)
  IN  BuildingPart(txt0) \o SuitePart(txt0) \o RoomPart(txt0) \o FloorPart(txt0)
        \o StairPart(lower) \o StreetPart(txt0) \o ElevatorPart(lower)
        \o (IF Matches(lower, <<"residence", "hall">>)
              THEN << Words(<<"residence", "hall">>) >> ELSE <<>>)
        \o CorridorPart(lower) \o CardinalPart(lower, "wing")
        \o CardinalPart(lower, "wall")
        \o (IF Matches(lower, <<"lobby">>) THEN << Words(<<"lobby">>) >> ELSE <<>>)

-----------------------------------------------------------------------------
(* parse_form *)

\* parse_form with the asset resolved against the category of the call before
parse_form_stale(txt0, clock) ==
  LET t     == extract_task_type(txt0)
      stale == IF last.record.task_type = "" THEN "General" ELSE last.record.task_type
  IN  [task_type |-> t,
       location  |-> extract_location(txt0),
       asset     |-> extract_asset(txt0, stale),
       priority  |-> extract_priority(txt0),
       date      |-> extract_date(txt0, clock).date]

parse_form(txt0, clock) ==
  LET t == extract_task_type(txt0)
  IN  [task_type |-> t,
       location  |-> extract_location(txt0),
       asset     |-> extract_asset(txt0, t),
       priority  |-> extract_priority(txt0),
       date      |-> extract_date(txt0, clock).date]

-----------------------------------------------------------------------------
(* The program: a line is entered, parse_form is called on it (again and      *)
(* again, as the user presses "parse"), and the calendar moves on.           *)

MaxPhrases == 2

MaxTicks == 1

RECURSIVE Texts(_, _)
Texts(phrases, n) ==
  IF n = 0 THEN {<<>>}
  ELSE LET shorter == Texts(phrases, n - 1)
       IN  shorter \cup { s \o ph : s \in shorter, ph \in phrases }

\* the lines the UI passes on: it drops the blank ones
Lines(phrases) == Texts(phrases, MaxPhrases) \ {<<>>}

PriorityPhrases ==
  { Words(<<"minor">>), Words(<<"not", "a", "big", "deal">>), Words(<<"not">>),
    Words(<<"urgent">>), Words(<<"not", "urgent">>), Words(<<"emergency">>),
    <<T("emergency", "comma")>>, Words(<<"exit">>),
    Words(<<"emergency", "exit", "sign">>), Words(<<"no", "rush">>),
    Words(<<"soon">>), Words(<<"sink">>), Words(<<"urgently">>) }

TaskPhrases ==
  { Words(<<"vent">>), Words(<<"light">>), Words(<<"leak">>), <<T("leak", "comma")>>,
    Words(<<"pipe">>), Words(<<"door", "handle">>), Words(<<"fixture">>),
    Words(<<"broken">>), Words(<<"exit", "signs">>), Words(<<"hinge">>) }

DatePhrases ==
  { Words(<<"next">>), Words(<<"thanksgiving">>),
    <<T("valentine", "curly_apos_s"), W("day")>>,
    Words(<<"end", "of", "this", "month">>), Words(<<"15th", "of", "july">>),
    Words(<<"31st", "june">>), Words(<<"4", "july">>), Words(<<"by", "friday">>),
    Words(<<"sink">>) }

MixedPhrases ==
  { Words(<<"light">>), Words(<<"broken">>),
    Words(<<"Building", "A">>), <<W("room"), T("204", "comma")>>,
    Words(<<"3rd", "floor">>), Words(<<"urgent">>), Words(<<"by", "friday">>),
    Words(<<"end", "of", "this", "month">>), Words(<<"tomorrow">>) }

Entity(other, days) == [other |-> other, days |-> days]

\* answers of the NER service and of the fuzzy search: <<entities, matches>>;
\* days is the offset from the clock the text resolves to, -1 when the date
\* parser returns None for the entity
Oracles ==
  { << <<>>, <<>> >>,
    << <<Entity(TRUE, 1), Entity(FALSE, 0 - 1), Entity(FALSE, 2)>>, <<Entity(FALSE, 1)>> >>,
    << <<Entity(FALSE, 0 - 1)>>, <<Entity(TRUE, 2), Entity(FALSE, 3)>> >> }

MixedOracles ==
  { << <<>>, <<>> >>,
    << <<Entity(FALSE, 1)>>, <<Entity(FALSE, 1)>> >> }

Taggers == { {}, {"hinge", "door"} }

Midsummer == Date(2025, 6, 30)

ChristmasEve == Date(2024, 12, 24)

NoRecord ==
  [task_type |-> "", location |-> <<>>, asset |-> NoAsset, priority |-> "",
   date |-> NoDate]

NoCall ==
  [record |-> NoRecord, run |-> Outcome(NoDate, "", <<>>, <<>>), at |-> NoDate]

Called(c) == c # NoCall

InitWith(lines, days, oracles, taggers) ==
  /\ text \in lines
  /\ now \in days
  /\ ticks = 0
  /\ \E o \in oracles : ner = o[1] /\ search = o[2]
  /\ tagger \in taggers
  /\ last = NoCall
  /\ prev = NoCall

Init == InitWith(Lines(MixedPhrases), {Midsummer}, MixedOracles, {{}})

InitPriority == InitWith(Lines(PriorityPhrases), {Midsummer}, {<< <<>>, <<>> >>}, {{}})

InitTask == InitWith(Lines(TaskPhrases), {Midsummer}, {<< <<>>, <<>> >>}, Taggers)

InitDate == InitWith(Lines(DatePhrases), {ChristmasEve}, Oracles, {{}})

\* one press of "parse": parse_form(line) at the current clock
Parse ==
  /\ last' = [record |-> parse_form(text, now),
              run    |-> extract_date(text, now),
              at     |-> now]
  /\ prev' = last
  /\ UNCHANGED <<text, now, ticks, ner, search, tagger>>

\* midnight passes
Tick ==
  /\ ticks < MaxTicks
  /\ now' = NextDay(now)
  /\ ticks' = ticks + 1
  /\ UNCHANGED <<text, ner, search, tagger, last, prev>>

Next == Parse \/ Tick

Spec == Init /\ [][Next]_vars

SpecPriority == InitPriority /\ [][Next]_vars

SpecTask == InitTask /\ [][Next]_vars

SpecDate == InitDate /\ [][Next]_vars

-----------------------------------------------------------------------------
(* Properties of the priority classifier (SpecPriority) *)

lowered == LowerText(text)

HasKeyword(level) == AnyKeyword(lowered, PRIORITY_KEYWORDS[level])

\* the outcome of the six rules of the contract, first match wins
ContractPriority ==
  IF Matches(lowered, <<"minor">>) \/ Matches(lowered, <<"not", "a", "big", "deal">>) THEN "Low"
  ELSE IF \/ Matches(lowered, <<"not", "urgent">>)
          \/ Matches(lowered, <<"not", "high", "priority">>)
          \/ Matches(lowered, <<"not", "critical">>) THEN "Low"
  ELSE IF HasKeyword("low") THEN "Low"
  ELSE IF HasKeyword("high") THEN "High"
  ELSE IF HasKeyword("medium") THEN "Medium"
  ELSE "Medium"

\* C1: extract_priority returns the outcome of the first matching rule in the
\* order downplay cue, negated urgency, Low keyword, High keyword, Medium
\* keyword, default Medium; so a downplay cue or Low keyword together with a
\* High keyword gives Low.
C1_RuleOrder == Called(last) => last.record.priority = ContractPriority

\* C2: every text that contains the phrase "not urgent" gets priority Low,
\* never High.
C2_NotUrgentIsLow ==
  (Called(last) /\ Matches(lowered, <<"not", "urgent">>)) => last.record.priority = "Low"

\* every "emergency" of the text is directly followed by "exit", and there is one
OnlyEmergencyExit ==
  /\ \E i \in 1..Len(lowered) : lowered[i].w = "emergency"
  /\ \A i \in 1..Len(lowered) :
        lowered[i].w = "emergency" =>
          (i < Len(lowered) /\ lowered[i].p = "" /\ lowered[i + 1].w = "exit")

NoOtherCue ==
  /\ \A k \in 1..Len(PRIORITY_KEYWORDS.high) :
        PRIORITY_KEYWORDS.high[k] # <<"emergency">> => ~Matches(lowered, PRIORITY_KEYWORDS.high[k])
  /\ ~HasKeyword("medium")
  /\ ~HasKeyword("low")
  /\ ~Matches(lowered, <<"not", "urgent">>)
  /\ ~Matches(lowered, <<"not", "high", "priority">>)
  /\ ~Matches(lowered, <<"not", "critical">>)

\* C10: a text whose only priority cue is "emergency" directly followed by
\* "exit" gets the default priority Medium, not High.
C10_EmergencyExitExempt ==
  (Called(last) /\ OnlyEmergencyExit /\ NoOtherCue) => last.record.priority = "Medium"

-----------------------------------------------------------------------------
(* Properties of the task-type classifier and the asset resolver (SpecTask) *)

HasCategory(cat) == AnyKeyword(lowered, TASK_CATEGORIES[cat])

\* the first category of the order that has a keyword in the text
FirstOf(order) ==
  LET hit == { c \in 1..Len(order) : HasCategory(order[c]) }
  IN  IF hit = {} THEN "General" ELSE Capitalize(order[Min(hit)])

\* C3 as stated: the categories are scanned in the order HVAC, Electrical,
\* Plumbing, Carpentry, General; the first with a whole-word keyword is
\* returned capitalized, General if none; so HVAC beats Electrical and Plumbing.
C3_HvacFirst ==
  Called(last) =>
    last.record.task_type =
      FirstOf(<<"hvac", "electrical", "plumbing", "carpentry", "general">>)

\* C3 as amended: the categories are scanned in the order Electrical,
\* Plumbing, HVAC, Carpentry, General; the first with a whole-word keyword is
\* returned capitalized, General if none; a text with an HVAC keyword and an
\* Electrical or Plumbing keyword is never classified Hvac.
C3_TableOrder ==
  Called(last) =>
    /\ last.record.task_type =
         FirstOf(<<"electrical", "plumbing", "hvac", "carpentry", "general">>)
    /\ (HasCategory("hvac") /\ (HasCategory("electrical") \/ HasCategory("plumbing")))
         => last.record.task_type # "Hvac"

C3_Witness ==
  /\ Called(last)
  /\ HasCategory("hvac")
  /\ HasCategory("plumbing")
  /\ ~HasCategory("electrical")
  /\ last.record.task_type = "Plumbing"

\* the keyword list of the category the latest call detected
Detected == TASK_CATEGORIES[LowerKey(last.record.task_type)]

Present(kws) == { k \in 1..Len(kws) : Matches(lowered, kws[k]) }

GenericPresent(kws) == { k \in Present(kws) : kws[k] \in GENERIC_ASSETS }

SpecificPresent(kws) == { k \in Present(kws) : kws[k] \notin GENERIC_ASSETS }

FirstPos(kw) == Min({ i \in 1..Len(lowered) : MatchAt(lowered, i, kw) })

\* two keywords of kws, the second right after the first, only a blank between
PairAt(i, kws, a, b) ==
  /\ MatchAt(lowered, i, kws[a])
  /\ lowered[i + Len(kws[a]) - 1].p = ""
  /\ MatchAt(lowered, i + Len(kws[a]), kws[b])

PairsAt(i, kws) ==
  LET firsts == { a \in 1..Len(kws) : MatchAt(lowered, i, kws[a]) }
  IN  UNION { { <<a, b>> : b \in { k \in 1..Len(kws) : PairAt(i, kws, a, k) } } :
              a \in firsts }

AdjacentIn(kws) == \E i \in 1..Len(lowered) : PairsAt(i, kws) # {}

HasExitSign == Contains(lowered, <<"exit", "sign">>)

CompoundsOf(kws) ==
  { kws[ab[1]] \o kws[ab[2]] : ab \in UNION { PairsAt(i, kws) : i \in 1..Len(lowered) } }

AnyCompounds ==
  UNION { CompoundsOf(TASK_CATEGORIES[CategoryOrder[c]]) : c \in 1..Len(CategoryOrder) }

\* C5 as stated: when the text holds two adjacent category keywords, the
\* asset is such a two-keyword compound, whatever category the text was
\* classified into.
C5_CompoundAnyCategory ==
  (Called(last) /\ AnyCompounds # {}) => last.record.asset \in AnyCompounds

\* C5 as amended: when the text holds two adjacent keywords of the category
\* it was classified into and does not contain "exit sign", the asset is the
\* leftmost such pair joined by one space.
C5_CompoundOfDetected ==
  (Called(last) /\ AdjacentIn(Detected) /\ ~HasExitSign)
    => \E i \in 1..Len(lowered) : \E ab \in PairsAt(i, Detected) :
          /\ last.record.asset = Detected[ab[1]] \o Detected[ab[2]]
          /\ \A j \in 1..(i - 1) : PairsAt(j, Detected) = {}

\* a compound that does not open the text is returned whole
C5_Witness ==
  /\ Called(last)
  /\ last.record.task_type = "Carpentry"
  /\ PairsAt(1, Detected) = {}
  /\ last.record.asset = <<"door", "handle">>

-----------------------------------------------------------------------------
(* Properties of the date resolver (SpecDate) *)

\* the calendar date of the holiday a recognised name stands for
CalendarDate(name, year) ==
  CASE name[1].w = "thanksgiving" -> nth_weekday(year, 11, 3, 4)
    [] name[1].w = "christmas" -> Date(year, 12, 25)
    [] name[1].w = "new" -> Date(year, 1, 1)
    [] name[1].w \in {"valentine", "valentines"} -> Date(year, 2, 14)
    [] name[1].w = "labor" -> nth_weekday(year, 9, 0, 1)
    [] name[1].w = "memorial" -> last_weekday(year, 5, 0)
    [] name[1].w \in {"president", "presidents"} -> nth_weekday(year, 2, 0, 3)
    [] name[1].w = "martin" -> nth_weekday(year, 1, 0, 3)
    [] name[1].w = "columbus" -> nth_weekday(year, 10, 0, 2)
    [] name[1].w = "veterans" -> Date(year, 11, 11)

HolidayNamed == HolidayMatch(lowered) # NoMatch

\* C6: a text with a holiday name the pattern recognises (possessive
\* spellings included) and no end-of-month phrase gets that holiday's date
\* from the holiday strategy itself: next year's with "next", otherwise this
\* year's unless it is already past, then next year's.
C6_HolidayResolved ==
  (Called(last) /\ HolidayNamed /\ ~EndOfMonth(lowered)) =>
    LET hol      == HolidayMatch(lowered)
        thisYear == CalendarDate(hol.name, last.at.y)
        nextYear == CalendarDate(hol.name, last.at.y + 1)
    IN  /\ last.run.by = "holiday"
        /\ last.run.date = IF hol.qual THEN nextYear
                           ELSE IF Before(thisYear, last.at) THEN nextYear
                           ELSE thisYear
        /\ (~hol.qual => ~Before(last.run.date, last.at))

\* the date-like tokens the guard looks for
DateLikeWords ==
  { "monday", "tuesday", "wednesday", "thursday", "friday", "saturday", "sunday",
    "mon", "tue", "wed", "thu", "fri", "sat", "sun",
    "january", "february", "march", "april", "may", "june", "july", "august",
    "september", "october", "november", "december",
    "next", "last", "tomorrow", "yesterday",
    "3rd", "15th", "31st", "100th" }

NoDateLikeToken == \A i \in 1..Len(lowered) : lowered[i].w \notin DateLikeWords

\* C7: a text with no date-like token, no end-of-month phrase and no holiday
\* name gets no date, and neither the NER service nor the date parser nor
\* the fuzzy date search is invoked for it.
C7_GuardSkipsServices ==
  (Called(last) /\ NoDateLikeToken /\ ~EndOfMonth(lowered) /\ ~HolidayNamed)
    => (last.run.date = NoDate /\ last.run.calls = <<>> /\ last.record.date = NoDate)

\* the guard returned although the services had a date to offer
C7_Witness ==
  /\ Called(last)
  /\ NoDateLikeToken
  /\ ~EndOfMonth(lowered)
  /\ ~HolidayNamed
  /\ EntityDate(ner, now) # NoDate
  /\ SearchDate(search, now) # NoDate
  /\ last.run.by = "guard"

\* a day of the month, with or without its ordinal suffix
DayOf(w) == IF OrdinalValue(w) > 0 THEN OrdinalValue(w) ELSE NumberValue(w)

\* <<i, n>>: tokens i..i+n-1 read "<day> [of] <month>", the day within days
DayMonthAt(suffixed, days) ==
  { x \in (1..Len(lowered)) \X {2, 3} :
      /\ x[1] + x[2] - 1 <= Len(lowered)
      /\ (IF suffixed THEN OrdinalValue(lowered[x[1]].w) ELSE DayOf(lowered[x[1]].w)) \in days
      /\ lowered[x[1]].p = ""
      /\ (x[2] = 3 => lowered[x[1] + 1] = W("of"))
      /\ MonthNumber(lowered[x[1] + x[2] - 1].w) > 0 }

\* the leftmost of them, as the phrase handed to the parser
Leftmost(spans) ==
  LET x == CHOOSE y \in spans : \A z \in spans : y[1] <= z[1]
  IN  Slice(lowered, x[1], x[1] + x[2] - 1)

ValidDay(phrase, year) ==
  DayOf(phrase[1].w) \in 1..DaysInMonth(year, MonthNumber(phrase[Len(phrase)].w))

PlainOrOrdinalDays == DayMonthAt(FALSE, 1..31)

OrdinalDays == DayMonthAt(TRUE, 1..99)

\* C9 as stated: a text with a day of the month followed by a month name,
\* with or without ordinal suffix and with or without "of", and without
\* end-of-month phrase or holiday name, is resolved by the day+month strategy
\* itself, which parses exactly that phrase; no weekday strategy, NER entity
\* or fuzzy search is consulted.
C9_DayMonthAnySuffix ==
  ( /\ Called(last)
    /\ PlainOrOrdinalDays # {}
    /\ ValidDay(Leftmost(PlainOrOrdinalDays), last.at.y)
    /\ ~EndOfMonth(lowered)
    /\ ~HolidayNamed )
    => /\ last.run.by = "explicit"
       /\ last.run.phrase = Leftmost(PlainOrOrdinalDays)
       /\ last.run.calls = <<"dateparser">>

\* C9 as amended: a text with a one- or two-digit day that carries an
\* ordinal suffix, followed by a month name with or without "of", and
\* without end-of-month phrase or holiday name: the day+month strategy hands
\* exactly the leftmost such phrase to the date parser before any weekday
\* strategy, NER entity or fuzzy search; when the parser yields a date (the
\* month has that day) that date is returned and nothing else is consulted.
C9_OrdinalDayMonth ==
  ( /\ Called(last)
    /\ OrdinalDays # {}
    /\ ~EndOfMonth(lowered)
    /\ ~HolidayNamed )
    => LET phrase == Leftmost(OrdinalDays)
       IN  /\ last.run.phrase = phrase
           /\ last.run.calls # <<>>
           /\ last.run.calls[1] = "dateparser"
           /\ ValidDay(phrase, last.at.y) =>
                /\ last.run.by = "explicit"
                /\ last.run.calls = <<"dateparser">>
                /\ last.run.date = Date(last.at.y, MonthNumber(phrase[Len(phrase)].w),
                                        DayOf(phrase[1].w))

\* the day+month phrase wins over a weekday deadline that precedes it
C9_Witness ==
  /\ Called(last)
  /\ OrdinalDays # {}
  /\ ByWeekday(lowered) # ""
  /\ EntityDate(ner, now) # NoDate
  /\ last.run.by = "explicit"
  /\ last.run.date = Date(2024, 7, 15)

-----------------------------------------------------------------------------
(* Idempotence of parse_form (Spec) *)

=============================================================================
